---- MODULE Spec2Model ----
(***************************************************************************)
(* Model of the azuread_custom_role table of steampipe-plugin-azuread.     *)
(*                                                                         *)
(* Two revisions of table_azuread_custom_role.go are modelled; they differ *)
(* only in how a failed getMembersFromId is handled:                       *)
(*   build = "azuread" : src/azuread/table_azuread_custom_role.go          *)
(*   build = "part000" : src/unnamed/part_000                              *)
(*                                                                         *)
(* Spec  : the hydrate functions listAdCustomRoles and getAdCustomRole     *)
(*         (with getMembersFromId) run against a directory.                *)
(* SpecT : the column transform functions applied to a hydrated item.      *)
(***************************************************************************)
EXTENDS Integers, Sequences, FiniteSets, TLC

VARIABLES
    build,             \* which revision of the file runs
    defs,              \* response of RoleDefinitions().Get: the role definitions
    assigns,           \* response of RoleAssignments().Get: the role assignments
    op,                \* hydrate function running: "none", "list", "get"
    pc,                \* position inside the hydrate function
    limit,             \* row limit of the query (0: no limit)
    cancelled,         \* the query context has been cancelled
    ids,               \* listAdCustomRoles: local ids
    examined,          \* listAdCustomRoles: role definitions the range loop has processed
    streamed,          \* items handed to d.StreamListItem, in order
    qualId,            \* getAdCustomRole: d.EqualsQuals["id"]
    ret,               \* returned interface{}: <<>> for nil, <<item>> otherwise
    err,               \* returned error
    logged,            \* plugin.Logger(ctx).Error calls, in order
    graphCalls,        \* number of Graph SDK Get calls made
    failedCall,        \* the call that failed during this hydrate ("" if none)
    rowsRemainingSeen, \* last value d.RowsRemaining returned (-1: not called yet)
    membersCall,       \* last getMembersFromId call: <<>> or <<[id, members, err]>>
    item,              \* SpecT: the hydrate item handed to the transforms
    col                \* SpecT: last transform result: <<>> or <<[fn, panic, value]>>

vars == <<build, defs, assigns, op, pc, limit, cancelled, ids, examined, streamed,
          qualId, ret, err, logged, graphCalls, failedCall, rowsRemainingSeen,
          membersCall, item, col>>

hydrateVars == <<build, defs, assigns, op, pc, limit, cancelled, ids, examined,
                 streamed, qualId, ret, err, logged, graphCalls, failedCall,
                 rowsRemainingSeen, membersCall>>

----------------------------------------------------------------------------
(* Bounds *)

MaxDefs == 2
MaxAssign == 3
MaxLimit == 1
MaxPerms == 2

(* Value spaces *)

NilStr == "<nil>"      \* a nil *string
NoErr == "<nil>"       \* a nil error
RoleIdNames == <<"r1", "r2", "r3", "r4">>
RoleIdAt(k) == IF k <= Len(RoleIdNames) THEN RoleIdNames[k] ELSE "r9"
TemplateIds == {"r1", "r2"}
Principals == {"p1", "p2"}
Builds == {"azuread", "part000"}

SeqsUpTo(S, n) == UNION {[1..k -> S] : k \in 0..n}

\* unifiedRoleDefinition objects as the join reads them
RoleShapes == [isBuiltIn : BOOLEAN, templateId : TemplateIds]
UnifiedRoleDefinition(k, shape) ==
    [id |-> RoleIdAt(k), isBuiltIn |-> shape.isBuiltIn, templateId |-> shape.templateId]

\* unifiedRoleAssignment objects
UnifiedRoleAssignment == [roleDefinitionId : TemplateIds, principalId : Principals]

\* type RoleDefinition struct { role; members }
RoleDefinition(role, members) == [role |-> role, members |-> members]

NilMembers == <<>>      \* a nil []string

----------------------------------------------------------------------------
(* Plugin SDK calls made by the hydrate functions *)

\* d.RowsRemaining(ctx): 0 once the context is cancelled or the limit is reached
RowsRemaining(lim, nStreamed, isCancelled) ==
    IF isCancelled THEN 0
    ELSE IF lim = 0 THEN 2147483647
    ELSE IF lim - nStreamed < 0 THEN 0 ELSE lim - nStreamed

\* CollectIds appending every roleDefinitionId, found or not
CollectIds_appendAll(as, acc) ==
    acc \o [k \in 1..Len(as) |-> as[k].roleDefinitionId]

\* the first loop of listAdCustomRoles: the distinct roleDefinitionIds, in order
RECURSIVE CollectIds(_, _)
CollectIds(as, acc) ==
    IF as = <<>> THEN acc
    ELSE LET rid == Head(as).roleDefinitionId
             found == \E k \in 1..Len(acc) : acc[k] = rid
         IN CollectIds(Tail(as), IF found THEN acc ELSE Append(acc, rid))

\* CollectMembers without the found check
RECURSIVE CollectMembers_noFound(_, _, _)
CollectMembers_noFound(as, id, member_ids) ==
    IF as = <<>> THEN member_ids
    ELSE CollectMembers_noFound(Tail(as), id,
            IF Head(as).roleDefinitionId = id
            THEN Append(member_ids, Head(as).principalId)
            ELSE member_ids)

\* the loop of getMembersFromId over assignments.GetValue()
RECURSIVE CollectMembers(_, _, _)
CollectMembers(as, id, member_ids) ==
    IF as = <<>> THEN member_ids
    ELSE LET newId == Head(as).roleDefinitionId
             principalId == Head(as).principalId
             found == \E k \in 1..Len(member_ids) : member_ids[k] = principalId
         IN CollectMembers(Tail(as), id,
                IF newId = id /\ ~found THEN Append(member_ids, principalId)
                ELSE member_ids)

\* Outcomes of one getMembersFromId call, decided by its two external calls:
\* GetGraphClient fails, RoleAssignments().Get fails, or both succeed
MemberOutcomes == {"ok", "connection_error", "graph_error"}

\* getMembersFromId of src/azuread/table_azuread_custom_role.go.
\* Result: the returned ([]string, error), whether it panicked, what it logged
\* and how many Graph calls it made.
getMembersFromId(as, id, outcome) ==
    IF outcome = "connection_error" THEN
        [members |-> NilMembers, err |-> "connection_error", panic |-> FALSE,
         logs |-> <<"connection_error">>, calls |-> 0]
    ELSE IF outcome = "graph_error" THEN
        \* err is ignored; assignments is nil and assignments.GetValue() panics
        [members |-> NilMembers, err |-> NoErr, panic |-> TRUE,
         logs |-> <<>>, calls |-> 1]
    ELSE
        [members |-> CollectMembers(as, id, <<>>), err |-> NoErr, panic |-> FALSE,
         logs |-> <<>>, calls |-> 1]

\* getMembersFromId of src/unnamed/part_000: the failed fetch is logged and returned
getMembersFromId_part000(as, id, outcome) ==
    IF outcome = "connection_error" THEN
        [members |-> NilMembers, err |-> "connection_error", panic |-> FALSE,
         logs |-> <<"connection_error">>, calls |-> 0]
    ELSE IF outcome = "graph_error" THEN
        [members |-> NilMembers, err |-> "graph_error", panic |-> FALSE,
         logs |-> <<"list_custom_role_error">>, calls |-> 1]
    ELSE
        [members |-> CollectMembers(as, id, <<>>), err |-> NoErr, panic |-> FALSE,
         logs |-> <<>>, calls |-> 1]

MembersFromId(b, as, id, outcome) ==
    IF b = "azuread" THEN getMembersFromId(as, id, outcome)
    ELSE getMembersFromId_part000(as, id, outcome)

\* The inner loop of listAdCustomRoles, "for _, id := range ids", for one
\* customRole.  st accumulates: items streamed, calls made, logs written, the
\* last getMembersFromId call, and how the loop ended ("" : ran to its end).
RECURSIVE RangeIds(_, _, _, _, _, _)
RangeIds(b, idsLeft, customRole, as, outcome, st) ==
    IF idsLeft = <<>> \/ st.stop # "" THEN st
    ELSE IF Head(idsLeft) # customRole.templateId
    THEN RangeIds(b, Tail(idsLeft), customRole, as, outcome, st)
    ELSE LET r == MembersFromId(b, as, Head(idsLeft), outcome)
             call == <<[id |-> Head(idsLeft), members |-> r.members, err |-> r.err,
                        panic |-> r.panic]>>
             st1 == [st EXCEPT !.calls = @ + r.calls, !.logs = @ \o r.logs,
                               !.call = call,
                               !.failed = IF outcome = "ok" THEN @
                                          ELSE "getMembersFromId." \o outcome]
         IN IF r.panic THEN [st1 EXCEPT !.stop = "panic"]
            ELSE IF r.err # NoErr /\ b = "part000"
            THEN [st1 EXCEPT !.stop = "error", !.err = r.err,
                             !.logs = @ \o <<"list_custom_role_error">>]
            ELSE \* build "azuread" ignores err and streams the item
                 RangeIds(b, Tail(idsLeft), customRole, as, outcome,
                          [st1 EXCEPT !.items = Append(@, RoleDefinition(customRole, r.members))])

----------------------------------------------------------------------------
(* Initial state: a directory and a revision; no hydrate function running *)

Directories ==
    {d \in SeqsUpTo(RoleShapes, MaxDefs) \X SeqsUpTo(UnifiedRoleAssignment, MaxAssign) : TRUE}

HydrateIdle ==
    /\ op = "none" /\ pc = "idle"
    /\ limit = 0 /\ cancelled = FALSE
    /\ ids = <<>> /\ examined = 0 /\ streamed = <<>>
    /\ qualId = "" /\ ret = <<>> /\ err = NoErr
    /\ logged = <<>> /\ graphCalls = 0 /\ failedCall = ""
    /\ rowsRemainingSeen = -1 /\ membersCall = <<>>

Init ==
    /\ build \in Builds
    /\ \E d \in Directories :
          /\ defs = [k \in 1..Len(d[1]) |-> UnifiedRoleDefinition(k, d[1][k])]
          /\ assigns = d[2]
    /\ HydrateIdle
    /\ item = <<>> /\ col = <<>>

----------------------------------------------------------------------------
(* listAdCustomRoles *)

Return(r, e) ==
    /\ pc' = "returned" /\ ret' = r /\ err' = e

\* the query starts; GetGraphClient
ListGetGraphClient ==
    /\ pc = "idle"
    /\ op' = "list"
    /\ \E lim \in 0..MaxLimit : limit' = lim
    /\ \E ok \in BOOLEAN :
          IF ok THEN /\ pc' = "list_definitions"
                     /\ UNCHANGED <<ret, err, logged, failedCall>>
          ELSE /\ Return(<<>>, "connection_error")
               /\ logged' = Append(logged, "connection_error")
               /\ failedCall' = "GetGraphClient"
    /\ UNCHANGED <<build, defs, assigns, cancelled, ids, examined, streamed, qualId,
                   graphCalls, rowsRemainingSeen, membersCall, item, col>>

\* client.RoleManagement().Directory().RoleDefinitions().Get
ListRoleDefinitionsGet ==
    /\ pc = "list_definitions"
    /\ graphCalls' = graphCalls + 1
    /\ \E ok \in BOOLEAN :
          IF ok THEN /\ pc' = "list_assignments"
                     /\ UNCHANGED <<ret, err, logged, failedCall>>
          ELSE /\ Return(<<>>, "graph_error")
               /\ logged' = Append(logged, "list_custom_role_error")
               /\ failedCall' = "RoleDefinitions.Get"
    /\ UNCHANGED <<build, defs, assigns, op, limit, cancelled, ids, examined, streamed,
                   qualId, rowsRemainingSeen, membersCall, item, col>>

\* client.RoleManagement().Directory().RoleAssignments().Get and the ids loop
ListRoleAssignmentsGet ==
    /\ pc = "list_assignments"
    /\ graphCalls' = graphCalls + 1
    /\ \E ok \in BOOLEAN :
          IF ok THEN /\ pc' = "list_loop"
                     /\ ids' = CollectIds(assigns, <<>>)
                     /\ UNCHANGED <<ret, err, logged, failedCall>>
          ELSE /\ Return(<<>>, "graph_error")
               /\ logged' = Append(logged, "list_custom_role_error")
               /\ failedCall' = "RoleAssignments.Get"
               /\ UNCHANGED ids
    /\ UNCHANGED <<build, defs, assigns, op, limit, cancelled, examined, streamed,
                   qualId, rowsRemainingSeen, membersCall, item, col>>

\* the RowsRemaining check falling through instead of returning
CheckRowsRemaining_noReturn(remaining) ==
    /\ rowsRemainingSeen' = remaining
    /\ UNCHANGED <<pc, ret, err>>

\* if d.RowsRemaining(ctx) == 0 { return nil, nil }
CheckRowsRemaining(remaining) ==
    /\ rowsRemainingSeen' = remaining
    /\ IF remaining = 0 THEN Return(<<>>, NoErr)
       ELSE UNCHANGED <<pc, ret, err>>

\* one iteration of "for _, customRole := range result.GetValue()"
ListRangeRoleDefinitions ==
    /\ pc = "list_loop"
    /\ examined < Len(defs)
    /\ examined' = examined + 1
    /\ \E outcome \in MemberOutcomes :
        LET customRole == defs[examined + 1]
            st0 == [items |-> <<>>, calls |-> 0, logs |-> <<>>, call |-> membersCall,
                    failed |-> failedCall, stop |-> "", err |-> NoErr]
            st == IF ~customRole.isBuiltIn
                  THEN RangeIds(build, ids, customRole, assigns, outcome, st0)
                  ELSE st0
            remaining == RowsRemaining(limit, Len(streamed) + Len(st.items), cancelled)
        IN /\ streamed' = streamed \o st.items
           /\ graphCalls' = graphCalls + st.calls
           /\ logged' = logged \o st.logs
           /\ membersCall' = st.call
           /\ failedCall' = st.failed
           /\ IF st.stop = "panic"
              THEN pc' = "panicked" /\ UNCHANGED <<ret, err, rowsRemainingSeen>>
              ELSE IF st.stop = "error"
              THEN Return(<<>>, st.err) /\ UNCHANGED rowsRemainingSeen
              ELSE CheckRowsRemaining(remaining)
    /\ UNCHANGED <<build, defs, assigns, op, limit, cancelled, ids, qualId, item, col>>

\* the range loop is exhausted: return nil, nil
ListReturn ==
    /\ pc = "list_loop"
    /\ examined = Len(defs)
    /\ Return(<<>>, NoErr)
    /\ UNCHANGED <<build, defs, assigns, op, limit, cancelled, ids, examined, streamed,
                   qualId, logged, graphCalls, failedCall, rowsRemainingSeen,
                   membersCall, item, col>>

----------------------------------------------------------------------------
(* getAdCustomRole *)

QualIds == {""} \cup {RoleIdAt(k) : k \in 1..MaxDefs}

\* the role definition ByUnifiedRoleDefinitionId(id).Get answers with
RoleById(id) == {k \in 1..Len(defs) : defs[k].id = id}

\* CustomRoleId := d.EqualsQuals["id"]; GetGraphClient
GetGetGraphClient ==
    /\ pc = "idle"
    /\ op' = "get"
    /\ \E id \in QualIds, ok \in BOOLEAN :
          /\ qualId' = id
          /\ IF id = "" THEN /\ Return(<<>>, NoErr)
                             /\ UNCHANGED <<logged, failedCall>>
             ELSE IF ok THEN /\ pc' = "get_definition"
                             /\ UNCHANGED <<ret, err, logged, failedCall>>
             ELSE /\ Return(<<>>, "connection_error")
                  /\ logged' = Append(logged, "connection_error")
                  /\ failedCall' = "GetGraphClient"
    /\ UNCHANGED <<build, defs, assigns, limit, cancelled, ids, examined, streamed,
                   graphCalls, rowsRemainingSeen, membersCall, item, col>>

\* RoleDefinitions().ByUnifiedRoleDefinitionId(CustomRoleId).Get
GetRoleDefinitionGet ==
    /\ pc = "get_definition"
    /\ graphCalls' = graphCalls + 1
    /\ \E ok \in BOOLEAN :
          IF ok /\ RoleById(qualId) # {}
          THEN /\ pc' = "get_members"
               /\ UNCHANGED <<ret, err, logged, failedCall>>
          ELSE /\ Return(<<>>, "graph_error")
               /\ logged' = Append(logged, "get_directory_role_error")
               /\ failedCall' = "RoleDefinitions.ByUnifiedRoleDefinitionId.Get"
    /\ UNCHANGED <<build, defs, assigns, op, limit, cancelled, ids, examined, streamed,
                   qualId, rowsRemainingSeen, membersCall, item, col>>

\* members, err := getMembersFromId(ctx, d, CustomRoleId) and the return
GetMembers ==
    /\ pc = "get_members"
    /\ \E outcome \in MemberOutcomes, k \in RoleById(qualId) :
        LET customRole == defs[k]
            r == MembersFromId(build, assigns, qualId, outcome)
        IN /\ graphCalls' = graphCalls + r.calls
           /\ membersCall' = <<[id |-> qualId, members |-> r.members, err |-> r.err,
                                panic |-> r.panic]>>
           /\ failedCall' = IF outcome = "ok" THEN failedCall
                            ELSE "getMembersFromId." \o outcome
           /\ IF r.panic
              THEN /\ pc' = "panicked"
                   /\ logged' = logged \o r.logs
                   /\ UNCHANGED <<ret, err>>
              ELSE IF r.err # NoErr
              THEN /\ Return(<<>>, r.err)
                   /\ logged' = (logged \o r.logs) \o <<"get_custom_role_error">>
              ELSE /\ Return(<<RoleDefinition(customRole, r.members)>>, NoErr)
                   /\ logged' = logged \o r.logs
    /\ UNCHANGED <<build, defs, assigns, op, limit, cancelled, ids, examined, streamed,
                   qualId, rowsRemainingSeen, item, col>>

\* the query context is cancelled while the range loop runs (the Graph calls
\* before it are made with context.Background() and do not observe it)
Cancel ==
    /\ pc = "list_loop"
    /\ ~cancelled
    /\ cancelled' = TRUE
    /\ UNCHANGED <<build, defs, assigns, op, pc, limit, ids, examined, streamed, qualId,
                   ret, err, logged, graphCalls, failedCall, rowsRemainingSeen,
                   membersCall, item, col>>

----------------------------------------------------------------------------
(* Column transform functions, applied to the RoleDefinition in d.HydrateItem *)

None == <<>>             \* a nil slice
Some(x) == <<x>>         \* a non-nil slice x

OptStrings == {NilStr, "s"}
ActionLists == {None, Some(<<>>), Some(<<"a">>)}
UnifiedRolePermission ==
    [allowedResourceActions : ActionLists, excludedResourceActions : ActionLists,
     condition : OptStrings]
RolePermissionLists ==
    {None} \cup {Some(ps) : ps \in SeqsUpTo(UnifiedRolePermission, MaxPerms)}

\* the role definitions a hydrate item can hold, any pointer field possibly nil
HydrateItems ==
    {RoleDefinition([id |-> i, description |-> d, displayName |-> n, templateId |-> t,
                     rolePermissions |-> ps], m) :
        i \in {NilStr, "r1"}, d \in OptStrings, n \in OptStrings, t \in {NilStr, "r1"},
        ps \in RolePermissionLists, m \in {NilMembers, <<"p1">>}}

Value(v) == [panic |-> FALSE, value |-> v]
Panic == [panic |-> TRUE, value |-> NilStr]
Deref(ptr) == IF ptr = NilStr THEN Panic ELSE Value(ptr)

\* ranging over a nil slice is ranging over an empty one
Elems(opt) == IF opt = None THEN <<>> ELSE opt[1]

getCustomRoleMembers(data) == Value(data.members)

\* RolePermissionMapping storing the lists as they are, nil included
RolePermissionMapping_noNilCheck(per) ==
    [AllowedResourceActions |-> per.allowedResourceActions,
     ExcludedResourceActions |-> per.excludedResourceActions,
     condition |-> per.condition]

\* the body of the loop of getRolePermissions
RolePermissionMapping(per) ==
    [AllowedResourceActions |->
        IF per.allowedResourceActions = None THEN Some(<<>>)
        ELSE per.allowedResourceActions,
     ExcludedResourceActions |->
        IF per.excludedResourceActions = None THEN Some(<<>>)
        ELSE per.excludedResourceActions,
     condition |-> per.condition]

RECURSIVE AppendMappings(_, _)
AppendMappings(permissionArray, resourceArr) ==
    IF permissionArray = <<>> THEN resourceArr
    ELSE AppendMappings(Tail(permissionArray),
                        Append(resourceArr, RolePermissionMapping(Head(permissionArray))))

getRolePermissions(data) ==
    Value(Some(AppendMappings(Elems(data.role.rolePermissions), <<>>)))

getRoleId(data) == Deref(data.role.id)

getRoleDescripsion(data) ==
    IF data.role.description = NilStr THEN Value("No Description")
    ELSE Deref(data.role.description)

getRoleDisplayName(data) == Deref(data.role.displayName)

getRoleTemplateId(data) == Deref(data.role.templateId)

getCustomRoleTitle(data) ==
    LET title == data.role.displayName
    IN Value(IF title = NilStr THEN data.role.id ELSE title)

Transform(fn, r) ==
    /\ item # <<>>
    /\ col = <<>>
    /\ col' = <<[fn |-> fn, panic |-> r.panic, value |-> r.value]>>
    /\ UNCHANGED hydrateVars
    /\ UNCHANGED item

TransformId == Transform("getRoleId", getRoleId(item[1]))
TransformDescription == Transform("getRoleDescripsion", getRoleDescripsion(item[1]))
TransformDisplayName == Transform("getRoleDisplayName", getRoleDisplayName(item[1]))
TransformTemplateId == Transform("getRoleTemplateId", getRoleTemplateId(item[1]))
TransformMembers == Transform("getCustomRoleMembers", getCustomRoleMembers(item[1]))
TransformPermissions == Transform("getRolePermissions", getRolePermissions(item[1]))
TransformTitle == Transform("getCustomRoleTitle", getCustomRoleTitle(item[1]))

InitT ==
    /\ build = "azuread"
    /\ defs = <<>> /\ assigns = <<>>
    /\ HydrateIdle
    /\ \E it \in HydrateItems : item = <<it>>
    /\ col = <<>>

NextT ==
    \/ TransformId
    \/ TransformDescription
    \/ TransformDisplayName
    \/ TransformTemplateId
    \/ TransformMembers
    \/ TransformPermissions
    \/ TransformTitle

SpecT == InitT /\ [][NextT]_vars

Next ==
    \/ ListGetGraphClient
    \/ ListRoleDefinitionsGet
    \/ ListRoleAssignmentsGet
    \/ ListRangeRoleDefinitions
    \/ ListReturn
    \/ Cancel
    \/ GetGetGraphClient
    \/ GetRoleDefinitionGet
    \/ GetMembers

Spec == Init /\ [][Next]_vars


----------------------------------------------------------------------------
(* Properties *)

Named(id) == \E k \in 1..Len(assigns) : assigns[k].roleDefinitionId = id

AssignedCustomRole(r) == ~r.isBuiltIn /\ Named(r.templateId)

StreamedRoles == [k \in 1..Len(streamed) |-> streamed[k].role]

ListCompleted ==
    /\ op = "list" /\ pc = "returned"
    /\ err = NoErr /\ failedCall = ""
    /\ rowsRemainingSeen # 0

\* C1: when no fetch fails and the row limit is not reached, listAdCustomRoles
\* streams exactly the role definitions that are not built-in and whose
\* templateId is the roleDefinitionId of some assignment, each once, in the
\* order of the role-definitions response.
C1_ListStreamsAssignedCustomRoles ==
    ListCompleted => StreamedRoles = SelectSeq(defs, AssignedCustomRole)

\* a completed listing that kept one definition, dropped another, and whose
\* kept definition is named by two assignments
C1_Witness ==
    /\ ListCompleted
    /\ Len(streamed) >= 1 /\ Len(defs) > Len(streamed)
    /\ \E j, k \in 1..Len(assigns) :
          /\ j # k
          /\ assigns[j].roleDefinitionId = streamed[1].role.templateId
          /\ assigns[k].roleDefinitionId = streamed[1].role.templateId

\* C2: whenever getAdCustomRole returns a RoleDefinition, the role is not
\* built-in and at least one role assignment names it (by id or by templateId).
C2_GetReturnsAssignedCustomRole ==
    (op = "get" /\ pc = "returned" /\ ret # <<>>)
        => /\ ~ret[1].role.isBuiltIn
           /\ Named(ret[1].role.templateId) \/ Named(ret[1].role.id)

\* index of the first assignment of role id to principal p
FirstAssignment(id, p) ==
    CHOOSE k \in 1..Len(assigns) :
        /\ assigns[k].roleDefinitionId = id /\ assigns[k].principalId = p
        /\ \A j \in 1..(k - 1) :
              ~(assigns[j].roleDefinitionId = id /\ assigns[j].principalId = p)

MembersReturned ==
    /\ membersCall # <<>>
    /\ ~membersCall[1].panic /\ membersCall[1].err = NoErr

\* C3: when its fetch succeeds, getMembersFromId(id) returns the principalIds
\* of exactly the assignments whose roleDefinitionId is id, none twice, in the
\* order of their first occurrence in the assignments response.
C3_MembersOfId ==
    MembersReturned =>
        LET id == membersCall[1].id
            m == membersCall[1].members
        IN /\ \A k \in 1..Len(assigns) :
                 assigns[k].roleDefinitionId = id
                    => \E j \in 1..Len(m) : m[j] = assigns[k].principalId
           /\ \A j \in 1..Len(m) :
                 \E k \in 1..Len(assigns) :
                    /\ assigns[k].roleDefinitionId = id
                    /\ assigns[k].principalId = m[j]
           /\ \A i, j \in 1..Len(m) : i # j => m[i] # m[j]
           /\ \A i, j \in 1..Len(m) :
                 i < j => FirstAssignment(id, m[i]) < FirstAssignment(id, m[j])

\* a call that met a repeated principal, another role's assignment, and
\* returned two members
C3_Witness ==
    /\ MembersReturned
    /\ Len(membersCall[1].members) = 2
    /\ \E j, k \in 1..Len(assigns) :
          /\ j # k
          /\ assigns[j] = assigns[k]
          /\ assigns[j].roleDefinitionId = membersCall[1].id

GraphSdkCalls ==
    {"RoleDefinitions.Get", "RoleAssignments.Get",
     "RoleDefinitions.ByUnifiedRoleDefinitionId.Get", "getMembersFromId.graph_error"}

\* C4: in src/azuread/table_azuread_custom_role.go, once a Graph SDK call has
\* failed the hydrate function has logged it and returned a non-nil error and
\* no item.
C4_GraphFailureForwarded ==
    (build = "azuread" /\ failedCall \in GraphSdkCalls)
        => /\ pc = "returned"
           /\ err # NoErr /\ ret = <<>>
           /\ logged # <<>>

NullCheckedTransforms ==
    {"getRoleId", "getRoleDescripsion", "getRoleDisplayName", "getRoleTemplateId",
     "getCustomRoleTitle", "getRolePermissions"}

\* C5: whichever of id, description, displayName, templateId and
\* rolePermissions are nil, each of the six transform functions returns a
\* value and does not dereference a nil field.
C5_TransformsNullCheck ==
    (col # <<>> /\ col[1].fn \in NullCheckedTransforms) => ~col[1].panic

\* C6: once RowsRemaining has returned 0 the listing has returned (nil, nil)
\* and examines no further role definition, makes no further Graph call and
\* streams no further item; one iteration streams at most one item.
C6_LimitStopsListing ==
    /\ [](rowsRemainingSeen = 0 => (pc = "returned" /\ ret = <<>> /\ err = NoErr))
    /\ [][/\ rowsRemainingSeen = 0 => UNCHANGED <<examined, graphCalls, streamed>>
          /\ Len(streamed') <= Len(streamed) + 1]_vars

\* the limit was reached by a streamed item while definitions were left
C6_Witness ==
    /\ op = "list" /\ pc = "returned"
    /\ rowsRemainingSeen = 0 /\ ~cancelled
    /\ Len(streamed) = limit /\ limit >= 1
    /\ examined < Len(defs)

\* C7: getRolePermissions returns a non-nil list with one entry per role
\* permission, in order; each entry has exactly the keys
\* AllowedResourceActions, ExcludedResourceActions and condition, and each
\* action list is the permission's list, or the empty list when that is nil.
C7_RolePermissions ==
    (col # <<>> /\ col[1].fn = "getRolePermissions") =>
        /\ ~col[1].panic
        /\ col[1].value # None
        /\ LET res == col[1].value[1]
               perms == Elems(item[1].role.rolePermissions)
               listOrEmpty(l) == IF l = None THEN Some(<<>>) ELSE l
           IN /\ Len(res) = Len(perms)
              /\ \A k \in 1..Len(res) :
                    /\ DOMAIN res[k] =
                          {"AllowedResourceActions", "ExcludedResourceActions", "condition"}
                    /\ res[k].AllowedResourceActions =
                          listOrEmpty(perms[k].allowedResourceActions)
                    /\ res[k].ExcludedResourceActions =
                          listOrEmpty(perms[k].excludedResourceActions)

\* two permissions, the first with a nil allowed list and a present excluded list
C7_Witness ==
    /\ col # <<>> /\ col[1].fn = "getRolePermissions"
    /\ item[1].role.rolePermissions # None
    /\ LET perms == item[1].role.rolePermissions[1]
       IN /\ Len(perms) = 2
          /\ perms[1].allowedResourceActions = None
          /\ perms[1].excludedResourceActions = Some(<<"a">>)
          /\ perms[2].allowedResourceActions = Some(<<"a">>)

====
